---- MODULE Spec2Model ----
(***************************************************************************)
(* State-machine model of the specialized-futures crate:                   *)
(*   src/src/future/future_obj.rs  LocalFutureObj, FutureObj,              *)
(*                                 UnsafeFutureObj and its &mut F instance *)
(*   src/src/future/future.rs      Future and its &mut F, PinMut instances *)
(*   src/src/task/context.rs       Context                                 *)
(*   src/src/spawn/mod.rs          Spawn, Box<S>, SpawnErrorKind,          *)
(*                                 SpawnObjError                           *)
(*                                                                         *)
(* A container is a value (ptr, poll_fn, drop_fn).  Every operator that    *)
(* models a method of a container returns the sequence of calls the method *)
(* makes through the container's function pointers; an action puts those   *)
(* calls in flight on the calling thread and a later step runs them.       *)
(***************************************************************************)
EXTENDS Integers, Sequences, FiniteSets

\* ------------------------------------------------------------------ bounds
NThreads == 2
MaxObj == 2
CounterLimit == 2
MaxCount == 3
NWakers == 2
NSpawners == 2
MaxDepth == 3

Threads == 1..NThreads
\* The futures the drivers wrap: two counters, named by their addresses.
Fut == {"fa", "fb"}
Cid == 1..MaxObj
Wakers == 1..NWakers
Spawners == 1..NSpawners

\* ------------------------------------------------------- values and types
NoFn == "null"
\* The spawner type parameter S of a container: the unsized default
\* `dyn Spawn` or some concrete (Sized) spawner type.
DynSpawn == "dyn Spawn"
SizedSpawn == "Sized"
SParams == {DynSpawn, SizedSpawn}

NullPtr == "null"
NoObj == [ptr |-> NullPtr, poll_fn |-> NoFn, drop_fn |-> NoFn]
NoCx == [local_waker |-> 0, spawner |-> 0]

VARIABLES
    mem,        \* mem[f]: the concrete future (a counter) stored at address f
    borrow,     \* borrow[f]: an exclusive borrow &'a mut F of f is alive
    obj,        \* obj[c]: the container made by the c-th construction
    th,         \* th[t]: the method thread t is in, and what it is about to return
    pollCalls,  \* pollCalls[c]: poll-function calls run for construction c
    dropCalls,  \* dropCalls[c]: release-function calls run for construction c
    directPolls,\* directPolls[f]: polls made on f itself, through no container
    shut,       \* shut[s]: spawner s has been shut down
    ctx,        \* the stack of nested Contexts of one poll call
    popped      \* what the parent Context showed before and after a narrowing

vars == <<mem, borrow, obj, th, pollCalls, dropCalls, directPolls, shut, ctx, popped>>

\* --------------------------------------------- the concrete future (a counter)
\* A relocatable (Unpin) future whose state is a plain counter: each poll
\* adds one, and the poll that reaches CounterLimit is Ready with the count.
Counter_poll(cell) ==
    LET n == cell.count + 1
    IN  [self |-> [cell EXCEPT !.count = n],
         ret  |-> IF n >= CounterLimit
                  THEN [tag |-> "Ready", v |-> n]
                  ELSE [tag |-> "Pending", v |-> n]]

\* ------------------------------------- Future for &'a mut F and PinMut<'a, F>
\* The names of the two instances.
Future_RefMut == "<&mut F as Future>::poll"
Future_PinMut == "<PinMut<F> as Future>::poll"

\* <&'a mut F as Future<S>>::poll: F::poll(PinMut::new(&mut **self), cx).
Future_RefMut_poll(self, cx, m) ==
    LET r == Counter_poll(m[self])
    IN  [mem |-> [m EXCEPT ![self] = r.self], ret |-> r.ret]

\* <PinMut<'a, F> as Future<S>>::poll: F::poll((*self).reborrow(), cx).
Future_PinMut_poll(self, cx, m) ==
    LET r == Counter_poll(m[self])
    IN  [mem |-> [m EXCEPT ![self] = r.self], ret |-> r.ret]

\* ------------------------------ UnsafeFutureObj for &'a mut F (the dispatch table)
\* into_raw: the address of the borrowed future.
RefMut_into_raw(f) == f

\* The two function pointers F::poll and F::drop of the instance.
RefMut_poll_fn == "<&mut F as UnsafeFutureObj>::poll"
RefMut_drop_fn == "<&mut F as UnsafeFutureObj>::drop"

\* poll(ptr, cx): polls the future behind the pointer.
RefMut_poll(ptr, cx, m) ==
    LET r == Counter_poll(m[ptr])
    IN  [mem |-> [m EXCEPT ![ptr] = r.self], ret |-> r.ret]

\* Mutant: a release that destroys the future behind the pointer.
RefMut_drop_destroys(ptr, m) ==
    [mem |-> [m EXCEPT ![ptr].count = 0], ret |-> [tag |-> "unit", v |-> 0]]

\* drop(_ptr): does nothing.
RefMut_drop(ptr, m) == [mem |-> m, ret |-> [tag |-> "unit", v |-> 0]]

\* A call through a function pointer runs the function the pointer names.
Dispatch(call, m) ==
    IF call.ptr \notin DOMAIN m THEN [mem |-> m, ret |-> [tag |-> "invalid", v |-> 0]]
    ELSE IF call.fn = RefMut_poll_fn THEN RefMut_poll(call.ptr, call.cx, m)
    ELSE IF call.fn = RefMut_drop_fn THEN RefMut_drop(call.ptr, m)
    ELSE [mem |-> m, ret |-> [tag |-> "invalid", v |-> 0]]

\* ------------------------------------------------------------ LocalFutureObj
LocalFutureObj_new(f) ==
    [ptr |-> RefMut_into_raw(f), poll_fn |-> RefMut_poll_fn, drop_fn |-> RefMut_drop_fn]

into_future_obj(self) == [f0 |-> self]

\* Mutant: a conversion that rebuilds the container with the wrong pointer.
From_FutureObj_swapped(f) ==
    [ptr |-> f.f0.ptr, poll_fn |-> f.f0.drop_fn, drop_fn |-> f.f0.poll_fn]

From_FutureObj(f) == f.f0

\* Mutant: poll goes through the wrong function pointer.
LocalFutureObj_poll_wrong_fn(self, cx) ==
    << [fn |-> self.drop_fn, ptr |-> self.ptr, cx |-> cx] >>

LocalFutureObj_poll(self, cx) ==
    << [fn |-> self.poll_fn, ptr |-> self.ptr, cx |-> cx] >>

\* Mutant: a drop that polls the future once more before releasing it.
LocalFutureObj_drop_polls(self) ==
    << [fn |-> self.poll_fn, ptr |-> self.ptr, cx |-> NoCx],
       [fn |-> self.drop_fn, ptr |-> self.ptr, cx |-> NoCx] >>

LocalFutureObj_drop(self) ==
    << [fn |-> self.drop_fn, ptr |-> self.ptr, cx |-> NoCx] >>

\* ----------------------------------------------------------------- FutureObj
FutureObj_new(f) == [f0 |-> LocalFutureObj_new(f)]

FutureObj_poll(self, cx) == LocalFutureObj_poll(self.f0, cx)

\* Mutant: FutureObj with a Drop of its own, run before its field's.
FutureObj_drop_twice(self) ==
    LocalFutureObj_drop(self.f0) \o LocalFutureObj_drop(self.f0)

\* FutureObj has no Drop of its own: dropping it drops its one field.
FutureObj_drop(self) == LocalFutureObj_drop(self.f0)

\* unsafe impl<'a, T, S: Spawn> Send for FutureObj<'a, T, S>: the bound
\* S: Spawn carries the implicit Sized, so S = dyn Spawn is not covered;
\* LocalFutureObj holds a raw pointer and is never Send.
IsSend(ty, S) == ty = "FutureObj" /\ S # DynSpawn

\* Mutant: a move that does not carry the handle along.
MoveObj_loses_handle(v) == [v EXCEPT !.ptr = NullPtr]

\* A move of a container (it is Unpin): a bitwise copy of its three words.
MoveObj(v) == v

\* ------------------------------------------------------------------- spawning
SpawnErrorKind_shutdown == [hidden |-> "()"]

is_shutdown(kind) == TRUE

\* A spawner of the environment: it refuses every future once shut down and
\* hands the future back inside the error, and takes the future otherwise.
Mock_spawn_obj(self, future) ==
    IF self.shut
    THEN [tag |-> "Err", kind |-> SpawnErrorKind_shutdown, future |-> future]
    ELSE [tag |-> "Ok", kind |-> SpawnErrorKind_shutdown, future |-> [f0 |-> NoObj]]

\* Mutant: a Box that keeps the future and answers with an empty one.
Box_spawn_obj_keeps(self, future) ==
    [Mock_spawn_obj(self.inner, future) EXCEPT !.future = [f0 |-> NoObj]]

\* impl Spawn for Box<S>: forwards to the boxed spawner.
Box_spawn_obj(self, future) == Mock_spawn_obj(self.inner, future)

\* -------------------------------------------------------------------- Context
Context_new(local_waker, spawner) ==
    [local_waker |-> local_waker, spawner |-> spawner]

local_waker(self) == self.local_waker

\* waker(): the same wake handle seen as a Waker.
waker(self) == self.local_waker

spawner(self) == self.spawner

\* with_waker and with_spawner take &mut self: the operators give back the
\* parent as the call leaves it (self) beside the Context produced (ret).
with_waker(self, lw) ==
    [self |-> self,
     ret  |-> [local_waker |-> lw, spawner |-> self.spawner]]

\* Mutant: with_spawner that stores the new spawner in the parent too.
with_spawner_leaks(self, sp) ==
    [self |-> [self EXCEPT !.spawner = sp],
     ret  |-> [local_waker |-> self.local_waker, spawner |-> sp]]

with_spawner(self, sp) ==
    [self |-> self,
     ret  |-> [local_waker |-> self.local_waker, spawner |-> sp]]


\* ---------------------------------------------------------------------- state
NoCall == [fn |-> NoFn, ptr |-> NullPtr, cx |-> NoCx]

\* What a method is about to return: the result (tag, v) and the call made
\* through a function pointer (call); for spawn_obj the future passed (arg),
\* the future in the error (fut), and what the spawner inside the Box
\* answered (itag, ifut).
NoRet == [tag |-> "-", v |-> 0, call |-> NoCall,
          arg |-> NoObj, fut |-> NoObj, boxed |-> FALSE, itag |-> "-", ifut |-> NoObj]

\* A slot: the container (ty, S, val), the thread that owns it, whether a
\* spawner has taken it; and what is remembered of its past: the handle and
\* function pointers its construction captured (cap), the count of its future
\* at construction (base), whether it was moved after a poll (mvd), whether
\* it was converted from a FutureObj (cvt), whether it was handed to another
\* thread (sent).
FreeSlot == [st |-> "free", ty |-> "-", S |-> "-", val |-> NoObj, owner |-> 0,
             mvd |-> FALSE, cvt |-> FALSE, sent |-> FALSE, spawned |-> FALSE, cap |-> NoObj, base |-> 0]

IdleThread == [pc |-> "idle", op |-> "-", c |-> 0, cx |-> NoCx, calls |-> << >>,
               ret |-> NoRet]

NoPop == [how |-> "-", seen |-> NoCx, after |-> NoCx]

\* The LocalFutureObj inside the container of a slot.
Inner(o) == IF o.ty = "FutureObj" THEN o.val.f0 ELSE o.val

\* The calls in flight: the call a thread inside a method is making now.
InFlight(t) == th[t].pc = "call" /\ th[t].calls # << >>

Init ==
    /\ mem = [f \in Fut |-> [count |-> 0, tag |-> <<"tag", f>>]]
    /\ borrow = [f \in Fut |-> FALSE]
    /\ obj = [c \in Cid |-> FreeSlot]
    /\ th = [t \in Threads |-> IdleThread]
    /\ pollCalls = [c \in Cid |-> 0]
    /\ dropCalls = [c \in Cid |-> 0]
    /\ directPolls = [f \in Fut |-> 0]
    /\ shut = [s \in Spawners |-> FALSE]
    /\ ctx = << >>
    /\ popped = NoPop

\* --------------------------------------------------- actions on containers
FirstFree == CHOOSE c \in Cid : obj[c].st = "free" /\ \A d \in Cid : d < c => obj[d].st # "free"

\* Mutant: a container that does not carry the lifetime of its borrow.
CanBorrowMut_unchecked(f) == TRUE

\* &'a mut F is an exclusive borrow, and the container carries its lifetime
\* 'a: no second borrow of f can be taken while a container over f exists.
CanBorrowMut(f) == ~borrow[f]

\* LocalFutureObj::new(&mut f) or FutureObj::new(&mut f) on thread t.
New(t, f, ty, S) ==
    /\ th[t].pc = "idle"
    /\ \E c \in Cid : obj[c].st = "free"
    /\ CanBorrowMut(f)
    /\ borrow' = [borrow EXCEPT ![f] = TRUE]
    /\ obj' = [obj EXCEPT ![FirstFree] =
                 [st |-> "live", ty |-> ty, S |-> S,
                  val |-> IF ty = "FutureObj" THEN FutureObj_new(f) ELSE LocalFutureObj_new(f),
                  owner |-> t, mvd |-> FALSE, cvt |-> FALSE, sent |-> FALSE,
                  spawned |-> FALSE,
                  cap |-> [ptr |-> RefMut_into_raw(f), poll_fn |-> RefMut_poll_fn,
                           drop_fn |-> RefMut_drop_fn],
                  base |-> mem[f].count]]
    /\ UNCHANGED <<mem, th, pollCalls, dropCalls, directPolls, shut, ctx, popped>>

\* A thread may use a container it owns while neither is inside a call.
Holds(t, c) ==
    /\ th[t].pc = "idle"
    /\ obj[c].st = "live"
    /\ obj[c].owner = t

\* poll(PinMut<Self>, cx) on the container of slot c, whether or not its
\* future has returned Ready; a run follows a counter up to MaxCount.
Poll(t, c, cx) ==
    /\ Holds(t, c)
    /\ mem[obj[c].cap.ptr].count < MaxCount
    /\ th' = [th EXCEPT ![t] =
                [pc |-> "call", op |-> "poll", c |-> c, cx |-> cx,
                 calls |-> IF obj[c].ty = "FutureObj"
                           THEN FutureObj_poll(obj[c].val, cx)
                           ELSE LocalFutureObj_poll(obj[c].val, cx),
                 ret |-> NoRet]]
    /\ UNCHANGED <<mem, borrow, obj, pollCalls, dropCalls, directPolls, shut, ctx, popped>>

\* Thread t polls the future f itself, through a &mut F or a PinMut<F> it
\* holds until the call returns; no container is involved.
DirectPoll(t, f, cx, via) ==
    /\ th[t].pc = "idle"
    /\ CanBorrowMut(f)
    /\ mem[f].count < MaxCount
    /\ borrow' = [borrow EXCEPT ![f] = TRUE]
    /\ LET r == IF via = Future_RefMut THEN Future_RefMut_poll(f, cx, mem)
                                       ELSE Future_PinMut_poll(f, cx, mem)
       IN  /\ mem' = r.mem
           /\ th' = [th EXCEPT ![t] =
                       [pc |-> "call", op |-> "direct", c |-> 0, cx |-> cx,
                        calls |-> << >>,
                        ret |-> [NoRet EXCEPT !.tag = r.ret.tag, !.v = r.ret.v,
                                              !.call = [fn |-> via, ptr |-> f,
                                                        cx |-> cx]]]]
    /\ directPolls' = [directPolls EXCEPT ![f] = @ + 1]
    /\ UNCHANGED <<obj, pollCalls, dropCalls, shut, ctx, popped>>

\* The container of slot c goes out of scope on thread t.
Drop(t, c) ==
    /\ Holds(t, c)
    /\ obj' = [obj EXCEPT ![c].st = "dropping"]
    /\ th' = [th EXCEPT ![t] =
                [pc |-> "call", op |-> "drop", c |-> c, cx |-> NoCx,
                 calls |-> IF obj[c].ty = "FutureObj"
                           THEN FutureObj_drop(obj[c].val)
                           ELSE LocalFutureObj_drop(obj[c].val),
                 ret |-> NoRet]]
    /\ UNCHANGED <<mem, borrow, pollCalls, dropCalls, directPolls, shut, ctx, popped>>

\* The thread runs the call it has in flight, through the function pointer.
RunCall(t) ==
    /\ InFlight(t)
    /\ LET call == Head(th[t].calls)
           c == th[t].c
           r == Dispatch(call, mem)
       IN  /\ mem' = r.mem
           /\ pollCalls' = [pollCalls EXCEPT ![c] = @ + (IF call.fn = RefMut_poll_fn THEN 1 ELSE 0)]
           /\ dropCalls' = [dropCalls EXCEPT ![c] = @ + (IF call.fn = RefMut_drop_fn THEN 1 ELSE 0)]
           /\ th' = [th EXCEPT ![t].calls = Tail(@),
                               ![t].ret = [NoRet EXCEPT !.tag = r.ret.tag, !.v = r.ret.v,
                                                        !.call = call]]
    /\ UNCHANGED <<borrow, obj, directPolls, shut, ctx, popped>>

\* The method returns.  After a drop the container is gone and the borrow it
\* stood for has ended; after a poll of the future itself the borrow the
\* caller polled through has ended; after spawn_obj the spawner has the future (Ok) or
\* the caller has back the future that is in the error (Err).
Return(t) ==
    /\ th[t].pc = "call"
    /\ th[t].calls = << >>
    /\ th' = [th EXCEPT ![t] = IdleThread]
    /\ LET c == th[t].c
       IN  CASE th[t].op = "drop" ->
                  /\ obj' = [obj EXCEPT ![c] =
                               [FreeSlot EXCEPT !.st = "dead", !.cap = obj[c].cap]]
                  /\ borrow' = [borrow EXCEPT ![obj[c].cap.ptr] = FALSE]
             [] th[t].op = "spawn_obj" ->
                  /\ obj' = [obj EXCEPT ![c].spawned = (th[t].ret.tag = "Ok"),
                                        ![c].val = IF th[t].ret.tag = "Ok" THEN @
                                                   ELSE [f0 |-> th[t].ret.fut]]
                  /\ UNCHANGED borrow
             [] th[t].op = "direct" ->
                  /\ borrow' = [borrow EXCEPT ![th[t].ret.call.ptr] = FALSE]
                  /\ UNCHANGED obj
             [] OTHER -> UNCHANGED <<obj, borrow>>
    /\ UNCHANGED <<mem, pollCalls, dropCalls, directPolls, shut, ctx, popped>>

\* The container is moved to another place in memory.
Move(t, c) ==
    /\ Holds(t, c)
    /\ obj' = [obj EXCEPT ![c].val = IF obj[c].ty = "FutureObj"
                                      THEN [f0 |-> MoveObj(@.f0)]
                                      ELSE MoveObj(@),
                          ![c].mvd = @ \/ pollCalls[c] >= 1]
    /\ UNCHANGED <<mem, borrow, th, pollCalls, dropCalls, directPolls, shut, ctx, popped>>

\* LocalFutureObj::from(f)
IntoLocal(t, c) ==
    /\ Holds(t, c)
    /\ obj[c].ty = "FutureObj"
    /\ ~obj[c].spawned
    /\ obj' = [obj EXCEPT ![c].ty = "LocalFutureObj", ![c].val = From_FutureObj(@),
                          ![c].cvt = TRUE]
    /\ UNCHANGED <<mem, borrow, th, pollCalls, dropCalls, directPolls, shut, ctx, popped>>

\* unsafe { l.into_future_obj() }
IntoFutureObj(t, c) ==
    /\ Holds(t, c)
    /\ obj[c].ty = "LocalFutureObj"
    /\ obj' = [obj EXCEPT ![c].ty = "FutureObj", ![c].val = into_future_obj(@)]
    /\ UNCHANGED <<mem, borrow, th, pollCalls, dropCalls, directPolls, shut, ctx, popped>>

\* The container is handed to another thread, which needs Send.
Transfer(t, c, u) ==
    /\ Holds(t, c)
    /\ u # t
    /\ ~obj[c].spawned
    /\ IsSend(obj[c].ty, obj[c].S)
    /\ obj' = [obj EXCEPT ![c].owner = u, ![c].sent = TRUE]
    /\ UNCHANGED <<mem, borrow, th, pollCalls, dropCalls, directPolls, shut, ctx, popped>>

\* spawner.spawn_obj(future), on the spawner itself or on a Box of it.
SpawnObj(t, c, s, boxed) ==
    /\ Holds(t, c)
    /\ obj[c].ty = "FutureObj"
    /\ obj[c].S = DynSpawn
    /\ ~obj[c].spawned
    /\ LET sp == [shut |-> shut[s]]
           inner == Mock_spawn_obj(sp, obj[c].val)
           r == IF boxed THEN Box_spawn_obj([inner |-> sp], obj[c].val)
                         ELSE Mock_spawn_obj(sp, obj[c].val)
       IN  th' = [th EXCEPT ![t] =
                    [pc |-> "call", op |-> "spawn_obj", c |-> c, cx |-> NoCx,
                     calls |-> << >>,
                     ret |-> [NoRet EXCEPT !.tag = r.tag, !.arg = obj[c].val.f0,
                                           !.fut = r.future.f0, !.boxed = boxed,
                                           !.itag = inner.tag,
                                           !.ifut = inner.future.f0]]]
    /\ UNCHANGED <<mem, borrow, obj, pollCalls, dropCalls, directPolls, shut, ctx, popped>>

\* The executor behind spawner s shuts down.
Shutdown(s) ==
    /\ ~shut[s]
    /\ shut' = [shut EXCEPT ![s] = TRUE]
    /\ UNCHANGED <<mem, borrow, obj, th, pollCalls, dropCalls, directPolls, ctx, popped>>

\* ------------------------------------------------------------ specifications
\* The one Context the drivers pass where the Context does not matter.
ThreadCx == Context_new(CHOOSE w \in Wakers : TRUE, CHOOSE s \in Spawners : TRUE)

\* The Contexts a driver passes to poll: one per wake handle.
PollContexts == {Context_new(w, spawner(ThreadCx)) : w \in Wakers}

\* One thread: the whole life of containers, conversions, moves and spawning.
Solo == {t \in Threads : \A u \in Threads : t <= u}

Next ==
    \/ \E t \in Solo, f \in Fut, ty \in {"LocalFutureObj", "FutureObj"} :
          New(t, f, ty, DynSpawn)
    \/ \E t \in Solo, c \in Cid, cx \in PollContexts : Poll(t, c, cx)
    \/ \E t \in Solo, f \in Fut, via \in {Future_RefMut, Future_PinMut} :
          DirectPoll(t, f, ThreadCx, via)
    \/ \E t \in Solo, c \in Cid : Drop(t, c)
    \/ \E t \in Solo : RunCall(t)
    \/ \E t \in Solo : Return(t)
    \/ \E t \in Solo, c \in Cid : Move(t, c)
    \/ \E t \in Solo, c \in Cid : IntoLocal(t, c)
    \/ \E t \in Solo, c \in Cid : IntoFutureObj(t, c)

Spec == Init /\ [][Next]_vars

\* One thread that spawns its futures onto executors, which may shut down.
NextSpawn ==
    \/ \E t \in Solo, f \in Fut : New(t, f, "FutureObj", DynSpawn)
    \/ \E t \in Solo, c \in Cid : Poll(t, c, ThreadCx)
    \/ \E t \in Solo, f \in Fut, via \in {Future_RefMut, Future_PinMut} :
          DirectPoll(t, f, ThreadCx, via)
    \/ \E t \in Solo, c \in Cid : Drop(t, c)
    \/ \E t \in Solo : RunCall(t)
    \/ \E t \in Solo : Return(t)
    \/ \E t \in Solo, c \in Cid, s \in Spawners, boxed \in BOOLEAN : SpawnObj(t, c, s, boxed)
    \/ \E s \in Spawners : Shutdown(s)

SpecSpawn == Init /\ [][NextSpawn]_vars

\* Several threads, each driving the containers it owns.

NextMT ==
    \/ \E t \in Threads, f \in Fut, ty \in {"LocalFutureObj", "FutureObj"}, S \in SParams :
          New(t, f, ty, S)
    \/ \E t \in Threads, c \in Cid : Poll(t, c, ThreadCx)
    \/ \E t \in Threads, f \in Fut, via \in {Future_RefMut, Future_PinMut} :
          DirectPoll(t, f, ThreadCx, via)
    \/ \E t \in Threads, c \in Cid : Drop(t, c)
    \/ \E t \in Threads : RunCall(t)
    \/ \E t \in Threads : Return(t)
    \/ \E t \in Threads, c \in Cid, u \in Threads : Transfer(t, c, u)

SpecMT == Init /\ [][NextMT]_vars

\* The Contexts of one poll call: the driver's, and those narrowed from it.
CtxNew(w, s) ==
    /\ ctx = << >>
    /\ ctx' = << [cx |-> Context_new(w, s), how |-> "new", arg |-> 0, seen |-> NoCx] >>
    /\ popped' = NoPop
    /\ UNCHANGED <<mem, borrow, obj, th, pollCalls, dropCalls, directPolls, shut>>

Seen(cx) == [local_waker |-> local_waker(cx), spawner |-> spawner(cx)]

WithWaker(w) ==
    /\ Len(ctx) >= 1
    /\ Len(ctx) < MaxDepth
    /\ LET n == Len(ctx)
           r == with_waker(ctx[n].cx, w)
       IN  ctx' = Append([ctx EXCEPT ![n].cx = r.self],
                         [cx |-> r.ret, how |-> "with_waker", arg |-> w,
                          seen |-> Seen(ctx[n].cx)])
    /\ UNCHANGED <<mem, borrow, obj, th, pollCalls, dropCalls, directPolls, shut, popped>>

WithSpawner(s) ==
    /\ Len(ctx) >= 1
    /\ Len(ctx) < MaxDepth
    /\ LET n == Len(ctx)
           r == with_spawner(ctx[n].cx, s)
       IN  ctx' = Append([ctx EXCEPT ![n].cx = r.self],
                         [cx |-> r.ret, how |-> "with_spawner", arg |-> s,
                          seen |-> Seen(ctx[n].cx)])
    /\ UNCHANGED <<mem, borrow, obj, th, pollCalls, dropCalls, directPolls, shut, popped>>

\* The innermost Context goes out of scope; the parent is usable again.
ScopeEnd ==
    /\ Len(ctx) >= 1
    /\ LET n == Len(ctx)
       IN  /\ ctx' = SubSeq(ctx, 1, n - 1)
           /\ popped' = IF n = 1 THEN NoPop
                        ELSE [how |-> ctx[n].how, seen |-> ctx[n].seen,
                              after |-> Seen(ctx[n - 1].cx)]
    /\ UNCHANGED <<mem, borrow, obj, th, pollCalls, dropCalls, directPolls, shut>>

NextCtx ==
    \/ \E w \in Wakers, s \in Spawners : CtxNew(w, s)
    \/ \E w \in Wakers : WithWaker(w)
    \/ \E s \in Spawners : WithSpawner(s)
    \/ ScopeEnd

SpecCtx == Init /\ [][NextCtx]_vars

\* ======================================================================
\* Properties
\* ======================================================================
\* Thread t has made the calls of method op and is about to return from it.
Returning(t, op) == th[t].pc = "call" /\ th[t].op = op /\ th[t].calls = << >>

\* The release call construction c captured: drop_fn on the handle of into_raw.
ReleaseCallOf(c) ==
    [fn |-> obj[c].cap.drop_fn, ptr |-> obj[c].cap.ptr, cx |-> NoCx]

\* The poll call construction c captured, with the context cx.
PollCallOf(c, cx) ==
    [fn |-> obj[c].cap.poll_fn, ptr |-> obj[c].cap.ptr, cx |-> cx]

\* What the counter future answers to the poll that brings its count to n.
CounterAnswer(n) == IF n >= CounterLimit THEN "Ready" ELSE "Pending"

RECURSIVE SumPolls(_)
SumPolls(S) ==
    IF S = {} THEN 0
    ELSE LET c == CHOOSE x \in S : TRUE IN pollCalls[c] + SumPolls(S \ {c})

\* C1: across the life of a container (polls, moves, conversions either way,
\* then destruction) exactly one call reaches the release function its
\* construction captured, with the handle into_raw returned: none while the
\* container lives, one once it is destroyed, never two, whether or not the
\* future reached Ready.
ReleaseExactlyOnce ==
    \A c \in Cid :
        /\ dropCalls[c] <= 1
        /\ (obj[c].st \in {"free", "live"} => dropCalls[c] = 0)
        /\ (obj[c].st = "dead" => dropCalls[c] = 1)
        /\ \A t \in Threads :
             (th[t].pc = "call" /\ th[t].op = "drop" /\ th[t].c = c) =>
                IF th[t].calls # << >>
                THEN th[t].calls = << ReleaseCallOf(c) >> /\ dropCalls[c] = 0
                ELSE th[t].ret.call = ReleaseCallOf(c) /\ dropCalls[c] = 1

\* A container dropped without a poll is dead, and another that was polled
\* to Ready, moved, converted to LocalFutureObj and back has run its release.
ReleaseExactlyOnceWitness ==
    \E c \in Cid, d \in Cid, t \in Threads :
        /\ obj[d].st = "dead" /\ pollCalls[d] = 0 /\ dropCalls[d] = 1
        /\ Returning(t, "drop") /\ th[t].c = c /\ dropCalls[c] = 1
        /\ obj[c].ty = "FutureObj" /\ obj[c].cvt /\ obj[c].mvd
        /\ pollCalls[c] >= 1
        /\ mem[obj[c].cap.ptr].count >= CounterLimit

\* C2: a poll on a container (LocalFutureObj or FutureObj) makes exactly one
\* call, to the poll function captured at construction, with the handle
\* captured at construction and the caller's context, returns what that call
\* answered, and never calls the release function.
PollForwardsOnce ==
    \A t \in Threads :
        (th[t].pc = "call" /\ th[t].op = "poll") =>
            LET c == th[t].c
                call == PollCallOf(c, th[t].cx)
            IN  /\ dropCalls[c] = 0
                /\ IF th[t].calls # << >>
                   THEN th[t].calls = << call >> /\ th[t].ret = NoRet
                   ELSE /\ th[t].ret.call = call
                        /\ th[t].ret.v = mem[obj[c].cap.ptr].count
                        /\ th[t].ret.v = obj[c].base + pollCalls[c]
                        /\ th[t].ret.tag = CounterAnswer(th[t].ret.v)

\* A poll of a FutureObj whose future had already returned Ready is
\* returning Ready again, after the one call it made, and was passed a
\* context other than the default one.
PollForwardsOnceWitness ==
    \E t \in Threads :
        /\ Returning(t, "poll")
        /\ obj[th[t].c].ty = "FutureObj"
        /\ th[t].ret.tag = "Ready"
        /\ th[t].ret.v > CounterLimit
        /\ pollCalls[th[t].c] = th[t].ret.v
        /\ th[t].cx # ThreadCx

\* C3: dropping a container before its future is Ready is a valid
\* cancellation: the release function runs exactly once, the release step
\* calls no poll function, and no poll call is made for a construction after
\* its release call.
CancelIsSafe ==
    [][\A c \in Cid :
          /\ (dropCalls[c] >= 1 => pollCalls'[c] = pollCalls[c])
          /\ (\A t \in Threads : (th[t].op = "drop" /\ th[t].c = c) =>
                                    pollCalls'[c] = pollCalls[c])
          /\ dropCalls'[c] <= 1
          /\ (obj'[c].st = "dead" => dropCalls'[c] = 1)]_vars

\* A container polled once (Pending) and dropped before Ready.
CancelIsSafeWitness ==
    \E c \in Cid :
        /\ obj[c].st = "dead"
        /\ dropCalls[c] = 1
        /\ pollCalls[c] >= 1
        /\ mem[obj[c].cap.ptr].count < CounterLimit

\* The future a thread inside a call is working on: the one its container's
\* handle names, or the one it polls itself.
Target(t) == IF th[t].op = "direct" THEN th[t].ret.call.ptr
                                    ELSE obj[th[t].c].cap.ptr

\* C4: with several threads, each container owned by one thread at a time
\* (a Send container may be handed on between calls), the poll and release
\* calls that reach one handle never overlap; calls on different handles
\* may be in flight together; nor does a poll of the future itself overlap
\* a call on a handle to it.
CallsNeverOverlap ==
    \A t \in Threads, u \in Threads :
        (t # u /\ th[t].pc = "call" /\ th[u].pc = "call") =>
            /\ Target(t) # Target(u)
            /\ (th[t].op # "direct" /\ th[u].op # "direct" => th[t].c # th[u].c)
            /\ (InFlight(t) /\ InFlight(u) =>
                  Head(th[t].calls).ptr # Head(th[u].calls).ptr)

\* Two threads have poll calls in flight at once, on different handles, one
\* of them on a container that was handed to another thread.
CallsNeverOverlapWitness ==
    \E t \in Threads, u \in Threads :
        /\ t # u
        /\ InFlight(t) /\ InFlight(u)
        /\ obj[th[t].c].sent
        /\ Head(th[t].calls).fn = RefMut_poll_fn
        /\ Head(th[u].calls).fn = RefMut_poll_fn
        /\ Head(th[t].calls).ptr # Head(th[u].calls).ptr
        /\ pollCalls[th[t].c] >= 1

\* C5: when spawn_obj fails, on the spawner or through Box<S>, the error
\* carries the very future passed in (same handle, same function pointers,
\* same tag) and no release call has reached it; Box<S> returns what the
\* spawner inside answered.
SpawnFailureReturnsFuture ==
    /\ \A t \in Threads :
         Returning(t, "spawn_obj") =>
            LET r == th[t].ret
                c == th[t].c
            IN  /\ (r.tag = "Err" =>
                      /\ r.fut = r.arg
                      /\ r.fut = obj[c].cap
                      /\ mem[r.fut.ptr].tag = <<"tag", obj[c].cap.ptr>>
                      /\ dropCalls[c] = 0)
                /\ (r.boxed => r.tag = r.itag /\ r.fut = r.ifut)
    /\ \A c \in Cid : obj[c].st = "live" => Inner(obj[c]) = obj[c].cap

\* A Box of a spawner that has shut down is returning the error for a
\* future that had been polled before.
SpawnFailureReturnsFutureWitness ==
    \E t \in Threads :
        /\ Returning(t, "spawn_obj")
        /\ th[t].ret.tag = "Err"
        /\ th[t].ret.boxed
        /\ pollCalls[th[t].c] >= 1

\* C6: converting a FutureObj into a LocalFutureObj, at any point, changes
\* nothing of what polling does: the converted container makes the call the
\* FutureObj would have made, its polls answer as the future's count says,
\* and the conversion called neither the poll nor the release function.
ConversionTransparent ==
    \A c \in Cid :
        obj[c].st = "live" =>
            /\ (obj[c].ty = "FutureObj" =>
                  \A cx \in PollContexts :
                      LocalFutureObj_poll(From_FutureObj(obj[c].val), cx)
                          = FutureObj_poll(obj[c].val, cx))
            /\ (obj[c].cvt =>
                  /\ Inner(obj[c]) = obj[c].cap
                  /\ mem[obj[c].cap.ptr].count = obj[c].base + pollCalls[c]
                  /\ dropCalls[c] = 0
                  /\ \A t \in Threads :
                       (Returning(t, "poll") /\ th[t].c = c) =>
                          /\ th[t].ret.call = PollCallOf(c, th[t].cx)
                          /\ th[t].ret.v = obj[c].base + pollCalls[c]
                          /\ th[t].ret.tag = CounterAnswer(th[t].ret.v))

\* A container converted from a FutureObj after a first poll is returning
\* from a later poll as a LocalFutureObj.
ConversionTransparentWitness ==
    \E t \in Threads :
        /\ Returning(t, "poll")
        /\ obj[th[t].c].ty = "LocalFutureObj"
        /\ obj[th[t].c].cvt
        /\ pollCalls[th[t].c] >= 2

\* C7: a container moved between two polls keeps the handle and the two
\* function pointers captured at construction, and the poll after the move
\* continues the count of the poll before it.
MoveKeepsCount ==
    \A c \in Cid :
        (obj[c].st = "live" /\ obj[c].mvd) =>
            /\ Inner(obj[c]) = obj[c].cap
            /\ mem[obj[c].cap.ptr].count = obj[c].base + pollCalls[c]
            /\ \A t \in Threads :
                 (Returning(t, "poll") /\ th[t].c = c) =>
                    /\ pollCalls[c] >= 2
                    /\ th[t].ret.v = obj[c].base + pollCalls[c]

\* A LocalFutureObj polled, moved and polled again is returning the count 2.
MoveKeepsCountWitness ==
    \E t \in Threads :
        /\ Returning(t, "poll")
        /\ obj[th[t].c].ty = "LocalFutureObj"
        /\ obj[th[t].c].mvd
        /\ th[t].ret.v >= 2

\* C8: a Context made by with_waker(w) has wake handle w and the parent's
\* spawner, one made by with_spawner(s) has spawner s and the parent's wake
\* handle, and when a narrowed Context goes out of scope the parent shows the
\* wake handle and the spawner it showed before, at any nesting.
NarrowingLeavesParent ==
    /\ \A i \in 2..Len(ctx) :
         /\ ctx[i].seen = Seen(ctx[i - 1].cx)
         /\ (ctx[i].how = "with_waker" =>
               /\ local_waker(ctx[i].cx) = ctx[i].arg
               /\ spawner(ctx[i].cx) = spawner(ctx[i - 1].cx))
         /\ (ctx[i].how = "with_spawner" =>
               /\ spawner(ctx[i].cx) = ctx[i].arg
               /\ local_waker(ctx[i].cx) = local_waker(ctx[i - 1].cx))
    /\ popped.seen = popped.after

\* Inside a with_waker Context, a with_spawner Context that substituted
\* another spawner has gone out of scope.
NarrowingLeavesParentWitness ==
    /\ Len(ctx) = 2
    /\ ctx[2].how = "with_waker"
    /\ local_waker(ctx[2].cx) # local_waker(ctx[1].cx)
    /\ popped.how = "with_spawner"
    /\ popped.after = Seen(ctx[2].cx)

\* C9: every FutureObj can be handed to another thread, whatever its spawner
\* type parameter, the default dyn Spawn included.
EveryFutureObjIsSend ==
    \A c \in Cid :
        (obj[c].st = "live" /\ obj[c].ty = "FutureObj") => IsSend(obj[c].ty, obj[c].S)

\* C10: the release of the &mut F instance leaves the borrowed future as its
\* last poll left it: the count of a future is the number of polls made on
\* it, through all its containers (dropped ones included) and on the future
\* itself; and while a container exists or is being dropped the count is
\* the one it found at its construction plus its own polls.
RefMutReleaseKeepsFuture ==
    /\ \A f \in Fut :
         /\ mem[f].count = SumPolls({c \in Cid : obj[c].cap.ptr = f}) + directPolls[f]
         /\ mem[f].tag = <<"tag", f>>
    /\ \A c \in Cid :
         obj[c].st \in {"live", "dropping"} =>
            mem[obj[c].cap.ptr].count = obj[c].base + pollCalls[c]
    /\ \A t \in Threads :
         Returning(t, "poll") =>
            th[t].ret.v = obj[th[t].c].base + pollCalls[th[t].c]

\* A second container over a future, whose first container was polled and
\* dropped and which was then polled once itself, is returning from a poll
\* with the count of all three polls.
RefMutReleaseKeepsFutureWitness ==
    \E c \in Cid, d \in Cid, t \in Threads :
        /\ c < d
        /\ obj[c].st = "dead" /\ pollCalls[c] >= 1
        /\ obj[d].cap.ptr = obj[c].cap.ptr
        /\ directPolls[obj[d].cap.ptr] >= 1
        /\ obj[d].base = pollCalls[c] + directPolls[obj[d].cap.ptr]
        /\ Returning(t, "poll") /\ th[t].c = d
        /\ th[t].ret.v = pollCalls[c] + pollCalls[d] + directPolls[obj[d].cap.ptr]

====
